---- MODULE Spec2Model ----
(***************************************************************************)
(* The AHCI block adapter of axdriver_block/src/ahci.rs: AhciDriver::try_new *)
(* and its BlockDriverOps (read_block, write_block, flush, num_blocks,      *)
(* block_size), together with the three external functions it calls        *)
(* (ahci_init, ahci_sata_read_common, ahci_sata_write_common), which are    *)
(* the environment: a block store that answers with a transferred count.    *)
(*                                                                         *)
(* usize and u64 are 64 bits wide (a 64-bit target) and u32 is 32 bits.     *)
(* TLC's integers are narrower than that, so a 64-bit value is kept as its  *)
(* four 16-bit limbs, least significant first, and the arithmetic of the    *)
(* source is done on the limbs at its real width.                           *)
(***************************************************************************)
EXTENDS Integers, Sequences, FiniteSets, TLC

(***************************************************************************)
(* 64-bit unsigned arithmetic                                              *)
(***************************************************************************)
LimbBase == 2^16

\* The 64-bit value of a natural number below 2^31.
FromNat(n) == <<n % LimbBase, n \div LimbBase, 0, 0>>

\* Whether a 64-bit value is below 2^31, and then its value as a number.
IsSmall(a) == a[3] = 0 /\ a[4] = 0 /\ a[2] < 2^15
ToNat(a) == a[1] + LimbBase * a[2]

Zero == FromNat(0)
One == FromNat(1)

\* a + b on usize: the wrapped sum and whether it overflowed.
overflowing_add(a, b) ==
    LET s1 == a[1] + b[1]
        s2 == a[2] + b[2] + (s1 \div LimbBase)
        s3 == a[3] + b[3] + (s2 \div LimbBase)
        s4 == a[4] + b[4] + (s3 \div LimbBase)
    IN  [val |-> <<s1 % LimbBase, s2 % LimbBase, s3 % LimbBase, s4 % LimbBase>>,
         overflow |-> s4 \div LimbBase = 1]

\* a - b on usize: the wrapped difference and whether it overflowed.
overflowing_sub(a, b) ==
    LET d1 == a[1] - b[1]
        d2 == a[2] - b[2] - (IF d1 < 0 THEN 1 ELSE 0)
        d3 == a[3] - b[3] - (IF d2 < 0 THEN 1 ELSE 0)
        d4 == a[4] - b[4] - (IF d3 < 0 THEN 1 ELSE 0)
    IN  [val |-> <<d1 % LimbBase, d2 % LimbBase, d3 % LimbBase, d4 % LimbBase>>,
         overflow |-> d4 < 0]

\* a < b on unsigned 64-bit values.
Less(a, b) == overflowing_sub(a, b).overflow

\* Division by a divisor below 2^15: one limb at a time, most significant first.
ShortDiv(a, d) ==
    LET c4 == a[4]
        c3 == (c4 % d) * LimbBase + a[3]
        c2 == (c3 % d) * LimbBase + a[2]
        c1 == (c2 % d) * LimbBase + a[1]
    IN  [quot |-> <<c1 \div d, c2 \div d, c3 \div d, c4 \div d>>,
         rem |-> FromNat(c1 % d)]

\* Bit i (0 is the least significant) of a 64-bit value.
Bit(a, i) == (a[(i \div 16) + 1] \div (2^(i % 16))) % 2

\* x shifted left by one bit with `bit` shifted in, and the bit shifted out.
Shl1(x, bit) ==
    [val |-> overflowing_add(overflowing_add(x, x).val, FromNat(bit)).val,
     overflow |-> overflowing_add(x, x).overflow]

\* One bit of shift-and-subtract division by b: s is the remainder with the
\* next bit of the dividend shifted in.
DivBitPick(b, q, s, ge) ==
    [quot |-> Shl1(q, IF ge THEN 1 ELSE 0).val,
     rem |-> IF ge THEN overflowing_sub(s.val, b).val ELSE s.val]
DivBit(b, st, bit) ==
    DivBitPick(b, st.quot, Shl1(st.rem, bit),
               Shl1(st.rem, bit).overflow \/ ~Less(Shl1(st.rem, bit).val, b))

\* Division by any non-zero divisor, from bit i of the dividend down; the
\* remainder stays below the divisor throughout.
RECURSIVE LongDiv(_, _, _, _)
LongDiv(a, b, i, st) ==
    IF i < 0 \/ ~Less(st.rem, b)
    THEN st
    ELSE LongDiv(a, b, i - 1, DivBit(b, st, Bit(a, i)))

\* The number of limbs of b up to its most significant non-zero one, and a
\* shifted right by m limbs.
Limbs(b) == IF b[4] /= 0 THEN 4 ELSE IF b[3] /= 0 THEN 3 ELSE IF b[2] /= 0 THEN 2 ELSE 1
ShiftRightLimbs(a, m) == [i \in 1..4 |-> IF i + m <= 4 THEN a[i + m] ELSE 0]

\* a / b and a % b on usize, for b /= 0. A divisor of k limbs leaves a
\* quotient of at most 5 - k limbs: the limbs of a above those are the
\* first remainder.
div_rem(a, b) ==
    IF IsSmall(b) /\ ToNat(b) < 2^15
    THEN ShortDiv(a, b[1])
    ELSE IF Less(a, b)
    THEN [quot |-> Zero, rem |-> a]
    ELSE LongDiv(a, b, 16 * (5 - Limbs(b)) - 1,
                 [quot |-> Zero, rem |-> ShiftRightLimbs(a, 5 - Limbs(b))])

\* The casts of the source.
as_u32(a) == <<a[1], a[2], 0, 0>>
as_u64(a) == a
as_usize(a) == a

(***************************************************************************)
(* Inputs                                                                  *)
(***************************************************************************)
\* Bounds of the model: buffer lengths 0..MaxSmallLen are all tried, and
\* start blocks 0..MaxBlockId; the bytes of a block are followed for block
\* sizes up to MaxTrackedBlock (for larger blocks only the counts are).
MaxSmallLen == 3
MaxBlockId == 1
MaxTrackedBlock == 2

Pow32 == <<0, 0, 1, 0>>
MaxU64 == <<LimbBase - 1, LimbBase - 1, LimbBase - 1, LimbBase - 1>>
\* isize::MAX, the longest slice there is.
MaxSliceLen == <<LimbBase - 1, LimbBase - 1, LimbBase - 1, 2^15 - 1>>

\* Return codes of ahci_init.
InitCodes == {0, 1, -1}
\* Values ahci_init may leave in blk_dev.blksz and blk_dev.lba.
BlockSizes == {Zero, One, FromNat(2), FromNat(512), MaxU64}
Lbas == {FromNat(1), FromNat(2)}
\* The geometries whose bytes the model follows.
StoreBlockSizes == {One, FromNat(2)}
StoreLbas == {FromNat(2)}
\* Lengths of the caller's buffer, and the caller's start blocks.
SmallLens == {FromNat(n) : n \in 0..MaxSmallLen}
BufLens ==
    SmallLens \cup {FromNat(512), FromNat(600), Pow32,
                    overflowing_add(Pow32, One).val, MaxSliceLen}
BlockIds == 0..MaxBlockId
\* Contents of the caller's buffer: byte k is base + step * (k - 1), so a
\* fill with 0xAA and a ramp from 0x55.
Fill == [base |-> 170, step |-> 0]
Ramp == [base |-> 85, step |-> 1]
BufByte(pat, k) == (pat.base + pat.step * (k - 1)) % 256
\* What lies in memory behind the end of the caller's buffer.
Garbage == {255}
\* How the external transfer ends: every block requested (as far as the
\* device reaches), one block short, or a count one above the request.
Outcomes == {"full", "short", "over"}
\* The builds: with overflow checks (arithmetic overflow panics) and
\* without (it wraps).
OverflowChecks == BOOLEAN

(***************************************************************************)
(* State                                                                   *)
(***************************************************************************)
VARIABLES
    adapter,          \* "None": no AhciDriver exists; "Ready": one does
    device,           \* AhciDriver.device, the fields the adapter reads
    init_result,      \* <<code>> of the latest ahci_init, <<>> before any
    created,          \* the descriptor as it was when try_new returned Ok
    disk,             \* the device's blocks that were written: block -> bytes
    intact,           \* the writes that returned Ok and were not written over
    last              \* the latest call, its arguments and its outcome

vars == <<adapter, device, init_result, created, disk, intact, last>>

\* The zeroed descriptor try_new builds before it calls ahci_init.
ZeroDevice == [blk_dev |-> [lba |-> Zero, blksz |-> Zero]]

NoCall ==
    [op |-> "none", ret |-> "none", code |-> 0, block_id |-> 0, len |-> Zero,
     block_count |-> Zero, warned |-> FALSE, calls |-> 0, arg_start |-> 0,
     arg_count |-> Zero, result |-> Zero, moved |-> 0, buf |-> <<>>,
     overrun |-> 0, value |-> Zero, prev |-> <<"none", "none">>]

Init ==
    /\ adapter = "None"
    /\ device = ZeroDevice
    /\ init_result = <<>>
    /\ created = ZeroDevice
    /\ disk = <<>>
    /\ intact = {}
    /\ last = NoCall

(***************************************************************************)
(* AhciDriver                                                              *)
(***************************************************************************)
\* try_new's decision on the code ahci_init returned.
try_new_result_nonnegative(result) == IF result >= 0 THEN "Ok" ELSE "Err"
try_new_result(result) == IF result = 0 THEN "Ok" ELSE "Err"

\* try_new: builds the zeroed descriptor, has ahci_init populate it, and
\* returns the adapter or Err(DevError::Io); on Err the descriptor is dropped.
try_new(code, blksz, lba) ==
    /\ adapter = "None"
    /\ \E populated \in {[ZeroDevice EXCEPT !.blk_dev.lba = lba,
                                           !.blk_dev.blksz = blksz]} :
       \E ret \in {try_new_result(code)} :
          /\ adapter' = IF ret = "Ok" THEN "Ready" ELSE "None"
          /\ device' = IF ret = "Ok" THEN populated ELSE ZeroDevice
          /\ created' = device'
          /\ init_result' = <<code>>
          /\ last' = [NoCall EXCEPT !.op = "try_new", !.ret = ret, !.code = code]
    /\ UNCHANGED <<disk, intact>>

\* num_blocks() and block_size().
block_size_of_lba(dev) == as_usize(dev.blk_dev.lba)
num_blocks(dev) == dev.blk_dev.lba
block_size(dev) == as_usize(dev.blk_dev.blksz)

\* flush(): no call of the external functions, Ok.
flush_result_err == "Err"
flush_result == "Ok"
flush ==
    /\ adapter = "Ready"
    /\ last' = [NoCall EXCEPT !.op = "flush", !.ret = flush_result,
                              !.prev = <<last.op, last.ret>>]
    /\ UNCHANGED <<adapter, device, init_result, created, disk, intact>>

\* A caller asking for the geometry.
query_block_size ==
    /\ adapter = "Ready"
    /\ last' = [NoCall EXCEPT !.op = "block_size", !.ret = "value",
                              !.value = block_size(device)]
    /\ UNCHANGED <<adapter, device, init_result, created, disk, intact>>

query_num_blocks ==
    /\ adapter = "Ready"
    /\ last' = [NoCall EXCEPT !.op = "num_blocks", !.ret = "value",
                              !.value = num_blocks(device)]
    /\ UNCHANGED <<adapter, device, init_result, created, disk, intact>>

(***************************************************************************)
(* The external transfer functions (the environment)                       *)
(***************************************************************************)
\* Whether the model follows the bytes of a block of this size.
Tracked(bs) == IsSmall(bs) /\ ToNat(bs) <= MaxTrackedBlock

\* How many blocks ahci_sata_read_common / ahci_sata_write_common move for
\* a request: at most the count asked for, at most what the device holds
\* from the start block on, and one less when the transfer ends short.
Moved(dev, req, outcome) ==
    LET lba == ToNat(dev.blk_dev.lba)
        avail == IF req.start < lba THEN lba - req.start ELSE 0
        want == IF IsSmall(req.count) /\ ToNat(req.count) <= avail
                THEN ToNat(req.count) ELSE avail
    IN  IF outcome = "short" /\ want > 0 THEN want - 1 ELSE want

\* The u64 they return: the blocks moved, or one above the count asked for.
Returned(req, n, outcome) ==
    IF outcome = "over" THEN overflowing_add(req.count, One).val ELSE FromNat(n)

\* Of the n * bs bytes moved, how many lie inside a buffer of len bytes.
InBounds(len, total) ==
    IF IsSmall(len) /\ ToNat(len) < total THEN ToNat(len) ELSE total

\* Byte k of block b of the device: what was written to it, zero otherwise.
DiskByte(b, k) == IF b \in DOMAIN disk THEN disk[b][k] ELSE 0

\* The first count bytes of the device from block start on, blocks of bs bytes.
DiskBytes(start, bs, count) ==
    [i \in 1..count |-> DiskByte(start + ((i - 1) \div bs), ((i - 1) % bs) + 1)]

\* The bytes block b gets when n blocks of bs bytes are written from block
\* start on out of a buffer that holds pat: inb bytes come from the buffer,
\* the rest from behind its end.
BlockBytes(b, start, bs, inb, pat, g) ==
    [k \in 1..bs |-> IF (b - start) * bs + k <= inb
                     THEN BufByte(pat, (b - start) * bs + k) ELSE g]
DiskAfterWrite(start, n, bs, inb, pat, g) ==
    IF n = 0 THEN disk
    ELSE [b \in DOMAIN disk \cup (start..(start + n - 1)) |->
             IF b \in start..(start + n - 1)
             THEN BlockBytes(b, start, bs, inb, pat, g) ELSE disk[b]]

(***************************************************************************)
(* BlockDriverOps for AhciDriver                                           *)
(***************************************************************************)
\* (buf.len() + block_size - 1) / block_size: the additions panic on
\* overflow in a build with overflow checks and wrap in one without; the
\* division panics on a zero block size in every build.
block_count(len, bs, checks) ==
    LET sum == overflowing_add(len, bs)
        dec == overflowing_sub(sum.val, One)
    IN  IF checks /\ (sum.overflow \/ dec.overflow)
        THEN [panic |-> TRUE, val |-> Zero]
        ELSE IF bs = Zero
        THEN [panic |-> TRUE, val |-> Zero]
        ELSE [panic |-> FALSE, val |-> div_rem(dec.val, bs).quot]

\* buf.len() % block_size != 0, which only logs a warning.
misaligned(len, bs) == div_rem(len, bs).rem /= Zero

\* What read_block and write_block hand to the external function.
read_request_next_block(block_id, bc) == [start |-> block_id + 1, count |-> as_u32(bc)]
read_request(block_id, bc) == [start |-> block_id, count |-> as_u32(bc)]
write_request(block_id, bc) == [start |-> block_id, count |-> as_u32(bc)]

\* What they make of the count it returns.
read_result_at_least(result, bc) == IF ~Less(result, as_u64(bc)) THEN "Ok" ELSE "Err"
read_result(result, bc) == IF result = as_u64(bc) THEN "Ok" ELSE "Err"
write_result(result, bc) == IF result = as_u64(bc) THEN "Ok" ELSE "Err"

read_block(block_id, len, outcome) ==
    /\ adapter = "Ready"
    /\ \E bs \in {block_size(device)} :
       \E bc \in {block_count(len, bs, checks) : checks \in OverflowChecks} :
          IF bc.panic
          THEN last' = [NoCall EXCEPT !.op = "read_block", !.ret = "Panic",
                                      !.block_id = block_id, !.len = len]
          ELSE \E req \in {read_request(block_id, bc.val)} :
               \E n \in {Moved(device, req, outcome)} :
               \E total \in {IF Tracked(bs) THEN n * ToNat(bs) ELSE 0} :
               \E result \in {Returned(req, n, outcome)} :
                  last' = [NoCall EXCEPT
                              !.op = "read_block",
                              !.ret = read_result(result, bc.val),
                              !.block_id = block_id, !.len = len,
                              !.block_count = bc.val,
                              !.warned = misaligned(len, bs),
                              !.calls = 1,
                              !.arg_start = req.start, !.arg_count = req.count,
                              !.result = result, !.moved = n,
                              !.buf = IF total = 0 THEN <<>>
                                      ELSE DiskBytes(req.start, ToNat(bs),
                                                     InBounds(len, total)),
                              !.overrun = total - InBounds(len, total)]
    /\ UNCHANGED <<adapter, device, init_result, created, disk, intact>>

\* The record of a write that returned Ok for a non-empty buffer of whole
\* blocks, and whether a record's blocks meet those a later write moved.
OkWrite(block_id, len, n, pat) ==
    [block_id |-> block_id, len |-> len, blocks |-> n,
     data |-> [k \in 1..ToNat(len) |-> BufByte(pat, k)]]
Overwritten(w, start, n) ==
    n > 0 /\ w.block_id < start + n /\ start < w.block_id + w.blocks

write_block(block_id, len, pat, g, outcome) ==
    /\ adapter = "Ready"
    /\ \E bs \in {block_size(device)} :
       \E bc \in {block_count(len, bs, checks) : checks \in OverflowChecks} :
          IF bc.panic
          THEN /\ last' = [NoCall EXCEPT !.op = "write_block", !.ret = "Panic",
                                         !.block_id = block_id, !.len = len]
               /\ UNCHANGED <<disk, intact>>
          ELSE \E req \in {write_request(block_id, bc.val)} :
               \E n \in {Moved(device, req, outcome)} :
               \E total \in {IF Tracked(bs) THEN n * ToNat(bs) ELSE 0} :
               \E result \in {Returned(req, n, outcome)} :
               \E ret \in {write_result(result, bc.val)} :
               \E odd \in {misaligned(len, bs)} :
                  /\ last' = [NoCall EXCEPT
                                 !.op = "write_block", !.ret = ret,
                                 !.block_id = block_id, !.len = len,
                                 !.block_count = bc.val,
                                 !.warned = odd,
                                 !.calls = 1,
                                 !.arg_start = req.start, !.arg_count = req.count,
                                 !.result = result, !.moved = n,
                                 !.overrun = total - InBounds(len, total)]
                  /\ disk' = IF total = 0 THEN disk
                             ELSE DiskAfterWrite(req.start, n, ToNat(bs),
                                                 InBounds(len, total), pat, g)
                  /\ intact' =
                        {w \in intact :
                            ~(total > 0 /\ Overwritten(w, req.start, n))}
                        \cup (IF ret = "Ok" /\ total > 0 /\ ~odd
                              THEN {OkWrite(block_id, len, n, pat)} ELSE {})
    /\ UNCHANGED <<adapter, device, init_result, created>>

\* Every geometry and buffer length, one buffer content.
Next ==
    \/ \E code \in InitCodes, blksz \in BlockSizes, lba \in Lbas :
          try_new(code, blksz, lba)
    \/ flush
    \/ query_block_size
    \/ query_num_blocks
    \/ \E block_id \in BlockIds, len \in BufLens, outcome \in Outcomes :
          read_block(block_id, len, outcome)
    \/ \E block_id \in BlockIds, len \in BufLens, g \in Garbage,
          outcome \in Outcomes :
          write_block(block_id, len, Fill, g, outcome)

Spec == Init /\ [][Next]_vars

\* The geometries whose bytes the model follows, short buffers, two contents.
NextStore ==
    \/ \E code \in InitCodes, blksz \in StoreBlockSizes, lba \in StoreLbas :
          try_new(code, blksz, lba)
    \/ flush
    \/ query_block_size
    \/ query_num_blocks
    \/ \E block_id \in BlockIds, len \in SmallLens, outcome \in Outcomes :
          read_block(block_id, len, outcome)
    \/ \E block_id \in BlockIds, len \in SmallLens, pat \in {Fill, Ramp},
          g \in Garbage, outcome \in Outcomes :
          write_block(block_id, len, pat, g, outcome)

SpecStore == Init /\ [][NextStore]_vars

(***************************************************************************)
(* Properties                                                              *)
(***************************************************************************)
IoOps == {"read_block", "write_block"}

\* ceil(len / bs) for bs /= 0, from the quotient and remainder of len by bs.
CeilDiv(len, bs) ==
    IF div_rem(len, bs).rem = Zero
    THEN div_rem(len, bs).quot
    ELSE overflowing_add(div_rem(len, bs).quot, One).val

\* C1: try_new returns Ok exactly when ahci_init returned 0 and
\* Err(DevError::Io) for every other code; an adapter exists exactly when
\* the latest ahci_init returned 0, after a failed one none exists and the
\* descriptor is gone, and read_block, write_block and flush only ever run
\* on an adapter whose ahci_init returned 0.
C1_TryNewOkIffInitZero ==
    /\ adapter \in {"None", "Ready"}
    /\ (adapter = "Ready") <=> (init_result = <<0>>)
    /\ last.op = "try_new" =>
          /\ (last.ret = "Ok") <=> (last.code = 0)
          /\ last.code /= 0 =>
                last.ret = "Err" /\ adapter = "None" /\ device = ZeroDevice
    /\ last.op \in IoOps \cup {"flush"} => init_result = <<0>>
C1_Witness ==
    last.op = "try_new" /\ last.code /= 0 /\ last.ret = "Err" /\ adapter = "None"

C3_BlockCountIsCeil ==
    (last.op \in IoOps /\ last.ret /= "Panic") =>
        last.block_count = CeilDiv(last.len, block_size(device))

\* C4: with a buffer length that is not a multiple of the block size the
\* call does not fail: the external function is called once with the
\* rounded-up count and the call returns Ok when that count comes back.
C4_MisalignedProceeds ==
    (/\ last.op \in IoOps
     /\ block_size(device) /= Zero
     /\ misaligned(last.len, block_size(device))) =>
        /\ last.ret /= "Panic"
        /\ last.calls = 1
        /\ last.arg_count = CeilDiv(last.len, block_size(device))
        /\ last.result = last.arg_count => last.ret = "Ok"

\* C5: round trip. A read_block that returns Ok for the start block and the
\* length of an earlier write_block that returned Ok for a non-empty buffer
\* of whole blocks, with no write to those blocks in between, leaves in the
\* buffer exactly the bytes that were written.
C5_RoundTrip ==
    (last.op = "read_block" /\ last.ret = "Ok") =>
        \A w \in intact :
            (w.block_id = last.block_id /\ w.len = last.len) => last.buf = w.data
C5_Witness ==
    /\ last.op = "read_block" /\ last.ret = "Ok" /\ last.len = FromNat(2)
    /\ \E w \in intact :
          /\ w.block_id = last.block_id /\ w.len = last.len
          /\ w.data = <<85, 86>> /\ last.buf = w.data

\* C6: every flush() returns Ok, without a call of the external functions
\* and without a change to the descriptor or the device's blocks.
C6_FlushAlwaysOk ==
    [][last'.op = "flush" =>
          /\ last'.ret = "Ok" /\ last'.calls = 0
          /\ device' = device /\ disk' = disk /\ adapter' = adapter]_vars
C6_Witness ==
    /\ last.op = "flush" /\ last.ret = "Ok" /\ last.calls = 0
    /\ last.prev \in {<<"read_block", "Err">>, <<"write_block", "Err">>}

\* C7: block_size() and num_blocks() return the blksz and lba ahci_init
\* left, change nothing, and no call changes what they return.
C7_GeometryStable ==
    [][/\ adapter' = "Ready" =>
             /\ block_size(device') = as_usize(created'.blk_dev.blksz)
             /\ num_blocks(device') = created'.blk_dev.lba
       /\ adapter = "Ready" => created' = created
       /\ last'.op = "block_size" =>
             /\ last'.value = as_usize(created.blk_dev.blksz)
             /\ UNCHANGED <<adapter, device, disk, intact>>
       /\ last'.op = "num_blocks" =>
             /\ last'.value = created.blk_dev.lba
             /\ UNCHANGED <<adapter, device, disk, intact>>]_vars
C7_Witness ==
    /\ last.op = "block_size" /\ last.value = FromNat(2)
    /\ created.blk_dev.lba = One /\ disk /= <<>>

\* C8: no retries. Every read_block or write_block call calls the external
\* function exactly once, with the caller's start block, and returns Err at
\* once when the count that comes back does not match.
C8_ExactlyOneTransfer ==
    last.op \in IoOps =>
        /\ last.calls = 1
        /\ last.arg_start = last.block_id
        /\ last.result /= last.block_count => last.ret = "Err"

\* C9: the u32 count handed to the external function is the same number as
\* the u64 count its return value is compared with.
C9_SameCountBothWidths ==
    (last.op \in IoOps /\ last.calls = 1) =>
        as_u64(last.arg_count) = as_u64(last.block_count)

\* C10: read_block and write_block always end with Ok or Err(DevError::Io),
\* for every buffer length and every block size ahci_init may leave.
C10_NeverAborts ==
    last.op \in IoOps => last.ret \in {"Ok", "Err"}
====
